---- MODULE Spec2Model ----
(***************************************************************************)
(* Model of ModelGpu (src/src/model_gpu.rs): the instanced cube renderer.  *)
(* State: the renderer's fields, the device's buffer table, and the        *)
(* commands recorded on the render pass handed to render.                  *)
(***************************************************************************)
EXTENDS Integers, Sequences, FiniteSets

VARIABLES
    self,            \* the ModelGpu value (fields of the struct)
    device,          \* the wgpu Device: the table of buffers it has created
    rpass,           \* commands recorded on the current RenderPass
    triangle_list,   \* the triangle_list argument new was called with
    op,              \* the call that produced this state
    updates,         \* number of update_instance calls so far
    arg_positions,   \* the positions argument of the latest update_instance
    arg_bind_group,  \* the main_bind_group argument of the latest render
    prev_len         \* the length of the positions argument of the update_instance before it

vars == <<self, device, rpass, triangle_list, op, updates, arg_positions, arg_bind_group, prev_len>>

----------------------------------------------------------------------------
(* Bounds of the exploration.                                              *)
MaxLead == 4
MaxUpdates == 2
MaxRenders == 2

----------------------------------------------------------------------------
(* Machine integers.  usize (64 bit) and u32 values do not fit the model   *)
(* checker's integers, so a machine integer is kept as two limbs           *)
(* <<hi, lo>> of value hi * 2^16 + lo with 0 <= lo < 2^16.                 *)
Limb == 65536

Wide(n) == <<n \div Limb, n % Limb>>

WAdd(a, b) == LET lo == a[2] + b[2] IN <<a[1] + b[1] + (lo \div Limb), lo % Limb>>

\* k * a for a small factor k
WMul(k, a) == LET lo == k * a[2] IN <<k * a[1] + (lo \div Limb), lo % Limb>>

\* a / k, integer division by a small divisor k
WDiv(a, k) == <<a[1] \div k, ((a[1] % k) * Limb + a[2]) \div k>>

WMod(a, k) == (((a[1] % k) * (Limb % k)) + a[2]) % k

WLeq(a, b) == a[1] < b[1] \/ (a[1] = b[1] /\ a[2] <= b[2])

\* the value 2^32 - 1 (u32::MAX)
U32Max == <<Limb - 1, Limb - 1>>

\* `x as u32` on a usize: keeps the low 32 bits
AsU32(x) == <<x[1] % Limb, x[2]>>

----------------------------------------------------------------------------
(* Slices.  A slice is a sequence of elements; to hold slices longer than  *)
(* the checker can enumerate, a slice is its explicit leading elements     *)
(* `lead` followed by `rest` further elements, all 0.0.                    *)
Slice(seq) == [lead |-> seq, rest |-> Wide(0)]

SliceLen(s) == WAdd(Wide(Len(s.lead)), s.rest)

EmptySlice == Slice(<<>>)

\* n floats 1.0, 2.0, .. n.0, and n floats 0.0
Ramp(n) == [i \in 1..n |-> i]

Zeros(n) == [i \in 1..n |-> 0]

\* the values of the positions argument: short slices of every length up to
\* MaxLead, and slices of 2^32 - 1 .. 2^32 - 1 + MaxLead floats, all 0.0
PositionsArgs ==
    {Slice(Ramp(n)) : n \in 0..MaxLead}
        \cup {[lead |-> Zeros(n), rest |-> U32Max] : n \in 0..MaxLead}

----------------------------------------------------------------------------
(* The Mesh Provider and the vertex type (crate::model).                   *)
SizeOfF32 == 4
SizeOfU32 == 4
SizeOfVertex == 24

Vertex(pos, tc) == [pos |-> <<pos[1], pos[2], pos[3], 1>>, tex_coord |-> tc]

CubeVertexData ==
    << Vertex(<<-1, -1, 1>>, <<0, 0>>), Vertex(<<1, -1, 1>>, <<1, 0>>),
       Vertex(<<1, 1, 1>>, <<1, 1>>),   Vertex(<<-1, 1, 1>>, <<0, 1>>),
       Vertex(<<-1, 1, -1>>, <<1, 0>>), Vertex(<<1, 1, -1>>, <<0, 0>>),
       Vertex(<<1, -1, -1>>, <<0, 1>>), Vertex(<<-1, -1, -1>>, <<1, 1>>),
       Vertex(<<1, -1, -1>>, <<0, 0>>), Vertex(<<1, 1, -1>>, <<1, 0>>),
       Vertex(<<1, 1, 1>>, <<1, 1>>),   Vertex(<<1, -1, 1>>, <<0, 1>>),
       Vertex(<<-1, -1, 1>>, <<1, 0>>), Vertex(<<-1, 1, 1>>, <<0, 0>>),
       Vertex(<<-1, 1, -1>>, <<0, 1>>), Vertex(<<-1, -1, -1>>, <<1, 1>>),
       Vertex(<<1, 1, -1>>, <<1, 0>>),  Vertex(<<-1, 1, -1>>, <<0, 0>>),
       Vertex(<<-1, 1, 1>>, <<0, 1>>),  Vertex(<<1, 1, 1>>, <<1, 1>>),
       Vertex(<<1, -1, 1>>, <<0, 0>>),  Vertex(<<-1, -1, 1>>, <<1, 0>>),
       Vertex(<<-1, -1, -1>>, <<1, 1>>), Vertex(<<1, -1, -1>>, <<0, 1>>) >>

CubeIndexData ==
    [i \in 1..36 |-> 4 * ((i - 1) \div 6) + <<0, 1, 2, 2, 3, 0>>[((i - 1) % 6) + 1]]

create_cube == [vertex_data |-> Slice(CubeVertexData), index_data |-> Slice(CubeIndexData)]

\* a triangle list that is not the cube
OneTriangle ==
    [vertex_data |-> Slice(<<Vertex(<<0, 0, 0>>, <<0, 0>>), Vertex(<<1, 0, 0>>, <<1, 0>>),
                            Vertex(<<0, 1, 0>>, <<0, 1>>)>>),
     index_data |-> Slice(<<0, 1, 2>>)]

TriangleLists == {create_cube, OneTriangle}

----------------------------------------------------------------------------
(* The device: create_buffer_mapped(count, usage).fill_from_slice(data)    *)
(* allocates a buffer of count * size_of::<T>() bytes holding a copy of    *)
(* data, and hands out its id.  Dropping a Buffer destroys it.             *)
Destroyed == [live |-> FALSE, size |-> Wide(0), usage |-> {}, data |-> EmptySlice]

create_buffer_mapped(count, elem_size, usage) ==
    [live |-> TRUE, size |-> WMul(elem_size, count), usage |-> usage, data |-> EmptySlice]

fill_from_slice(mapped, slice) == [mapped EXCEPT !.data = slice]

\* the device after it created buffer `buf`; the new buffer's id is Len of the table
Alloc(dev, buf) == [dev EXCEPT !.buffers = Append(@, buf)]

NewId(dev) == Len(dev.buffers) + 1

Drop(dev, id) == [dev EXCEPT !.buffers[id] = Destroyed]

LiveIds(dev) == {i \in 1..Len(dev.buffers) : dev.buffers[i].live}

----------------------------------------------------------------------------
(* ModelGpu::new                                                           *)
Formats == {"Bgra8UnormSrgb"}
BindGroupLayouts == {"main_bind_group_layout"}
BindGroups == {"main_bind_group", "other_bind_group"}

\* the RenderPipelineDescriptor new assembles (the pipeline is this value)
create_render_pipeline(format, main_bind_group_layout, vertex_size) ==
    [layout |-> <<main_bind_group_layout>>,
     vertex_stage |-> "cube_instanced.vert",
     fragment_stage |-> "cube_instanced.frag",
     front_face |-> "Ccw",
     cull_mode |-> "Back",
     primitive_topology |-> "TriangleList",
     color_format |-> format,
     color_blend |-> "REPLACE",
     alpha_blend |-> "REPLACE",
     depth_format |-> "Depth32Float",
     depth_write_enabled |-> TRUE,
     depth_compare |-> "Less",
     index_format |-> "Uint32",
     vertex_buffers |->
        << [stride |-> vertex_size, step_mode |-> "Vertex",
            attributes |-> << [format |-> "Float4", offset |-> 0, shader_location |-> 0],
                              [format |-> "Float2", offset |-> 4 * 4, shader_location |-> 1] >>],
           [stride |-> SizeOfF32 * 3, step_mode |-> "Instance",
            attributes |-> << [format |-> "Float3", offset |-> 0, shader_location |-> 2] >>] >>,
     sample_count |-> 1]

\* new, were it to upload the triangle_list it is given
new_from_argument(tl, dev, format, main_bind_group_layout) ==
    LET vbuf == fill_from_slice(
                    create_buffer_mapped(SliceLen(tl.vertex_data), SizeOfVertex, {"VERTEX"}),
                    tl.vertex_data)
        dev1 == Alloc(dev, vbuf)
        ibuf == fill_from_slice(
                    create_buffer_mapped(SliceLen(tl.index_data), SizeOfU32, {"INDEX"}),
                    tl.index_data)
        dev2 == Alloc(dev1, ibuf)
        nbuf == fill_from_slice(
                    create_buffer_mapped(Wide(0), SizeOfF32, {"VERTEX", "COPY_DST"}),
                    EmptySlice)
        dev3 == Alloc(dev2, nbuf)
    IN  [gpu |-> [vertex_buf     |-> NewId(dev),
                  index_buf      |-> NewId(dev1),
                  index_count    |-> SliceLen(tl.index_data),
                  instance_buf   |-> NewId(dev2),
                  instance_count |-> Wide(0),
                  pipeline       |-> create_render_pipeline(format, main_bind_group_layout,
                                                            SizeOfVertex)],
         device |-> dev3]

\* new: the constructed renderer and the device after the three allocations
new(tl, dev, format, main_bind_group_layout) ==
    LET vertex_size == SizeOfVertex
        cube        == create_cube
        vertex_data == cube.vertex_data
        index_data  == cube.index_data
        vbuf == fill_from_slice(
                    create_buffer_mapped(SliceLen(vertex_data), SizeOfVertex, {"VERTEX"}),
                    vertex_data)
        dev1 == Alloc(dev, vbuf)
        ibuf == fill_from_slice(
                    create_buffer_mapped(SliceLen(index_data), SizeOfU32, {"INDEX"}),
                    index_data)
        dev2 == Alloc(dev1, ibuf)
        positions == EmptySlice
        nbuf == fill_from_slice(
                    create_buffer_mapped(SliceLen(positions), SizeOfF32, {"VERTEX", "COPY_DST"}),
                    positions)
        dev3 == Alloc(dev2, nbuf)
    IN  [gpu |-> [vertex_buf     |-> NewId(dev),
                  index_buf      |-> NewId(dev1),
                  index_count    |-> SliceLen(index_data),
                  instance_buf   |-> NewId(dev2),
                  instance_count |-> WDiv(AsU32(SliceLen(positions)), 3),
                  pipeline       |-> create_render_pipeline(format, main_bind_group_layout,
                                                            vertex_size)],
         device |-> dev3]

----------------------------------------------------------------------------
(* ModelGpu::render: the commands it records, in order.  A range a..b is   *)
(* the pair <<a, b>>.                                                      *)
\* render, were it to draw before binding the vertex buffers
render_draw_early(gpu, main_bind_group) ==
    << [cmd |-> "set_pipeline", pipeline |-> gpu.pipeline],
       [cmd |-> "set_bind_group", index |-> 0, bind_group |-> main_bind_group],
       [cmd |-> "set_index_buffer", buffer |-> gpu.index_buf, offset |-> 0],
       [cmd |-> "draw_indexed", indices |-> <<Wide(0), AsU32(gpu.index_count)>>,
        base_vertex |-> 0, instances |-> <<Wide(0), AsU32(gpu.instance_count)>>],
       [cmd |-> "set_vertex_buffers", start_slot |-> 0,
        buffers |-> << <<gpu.vertex_buf, 0>>, <<gpu.instance_buf, 0>> >>] >>

render(gpu, main_bind_group) ==
    << [cmd |-> "set_pipeline", pipeline |-> gpu.pipeline],
       [cmd |-> "set_bind_group", index |-> 0, bind_group |-> main_bind_group],
       [cmd |-> "set_index_buffer", buffer |-> gpu.index_buf, offset |-> 0],
       [cmd |-> "set_vertex_buffers", start_slot |-> 0,
        buffers |-> << <<gpu.vertex_buf, 0>>, <<gpu.instance_buf, 0>> >>],
       [cmd |-> "draw_indexed", indices |-> <<Wide(0), AsU32(gpu.index_count)>>,
        base_vertex |-> 0, instances |-> <<Wide(0), AsU32(gpu.instance_count)>>] >>

----------------------------------------------------------------------------
(* ModelGpu::update_instance: allocate and fill temp_buf, swap it into     *)
(* instance_buf (the buffer mem::replace returns is dropped at once), and  *)
(* recompute instance_count.                                               *)
\* update_instance, were it to fill temp_buf and never swap it in
update_instance_no_swap(gpu, dev, positions) ==
    LET temp_buf == fill_from_slice(
                        create_buffer_mapped(SliceLen(positions), SizeOfF32, {"VERTEX"}),
                        positions)
        dev1 == Alloc(dev, temp_buf)
    IN  [gpu |-> [gpu EXCEPT !.instance_count = WDiv(AsU32(SliceLen(positions)), 3)],
         device |-> Drop(dev1, NewId(dev))]

\* update_instance, were it to store the length where the index count lives
update_instance_index_count(gpu, dev, positions) ==
    LET temp_buf == fill_from_slice(
                        create_buffer_mapped(SliceLen(positions), SizeOfF32, {"VERTEX"}),
                        positions)
        dev1 == Alloc(dev, temp_buf)
    IN  [gpu |-> [gpu EXCEPT !.instance_buf = NewId(dev),
                             !.index_count = SliceLen(positions),
                             !.instance_count = WDiv(AsU32(SliceLen(positions)), 3)],
         device |-> Drop(dev1, gpu.instance_buf)]

\* update_instance, were it to swap temp_buf into vertex_buf
update_instance_vertex_buf(gpu, dev, positions) ==
    LET temp_buf == fill_from_slice(
                        create_buffer_mapped(SliceLen(positions), SizeOfF32, {"VERTEX"}),
                        positions)
        dev1 == Alloc(dev, temp_buf)
    IN  [gpu |-> [gpu EXCEPT !.vertex_buf = NewId(dev),
                             !.instance_count = WDiv(AsU32(SliceLen(positions)), 3)],
         device |-> Drop(dev1, gpu.vertex_buf)]

\* update_instance, were the replaced buffer forgotten instead of dropped
update_instance_leak(gpu, dev, positions) ==
    LET temp_buf == fill_from_slice(
                        create_buffer_mapped(SliceLen(positions), SizeOfF32, {"VERTEX"}),
                        positions)
        dev1 == Alloc(dev, temp_buf)
    IN  [gpu |-> [gpu EXCEPT !.instance_buf = NewId(dev),
                             !.instance_count = WDiv(AsU32(SliceLen(positions)), 3)],
         device |-> dev1]

\* update_instance, were the instance count rounded up
update_instance_round_up(gpu, dev, positions) ==
    LET temp_buf == fill_from_slice(
                        create_buffer_mapped(SliceLen(positions), SizeOfF32, {"VERTEX"}),
                        positions)
        dev1 == Alloc(dev, temp_buf)
    IN  [gpu |-> [gpu EXCEPT !.instance_buf = NewId(dev),
                             !.instance_count =
                                 WDiv(WAdd(AsU32(SliceLen(positions)), Wide(2)), 3)],
         device |-> Drop(dev1, gpu.instance_buf)]

update_instance(gpu, dev, positions) ==
    LET temp_buf == fill_from_slice(
                        create_buffer_mapped(SliceLen(positions), SizeOfF32, {"VERTEX"}),
                        positions)
        dev1 == Alloc(dev, temp_buf)
        old  == gpu.instance_buf
    IN  [gpu |-> [gpu EXCEPT !.instance_buf = NewId(dev),
                             !.instance_count = WDiv(AsU32(SliceLen(positions)), 3)],
         device |-> Drop(dev1, old)]

----------------------------------------------------------------------------
Init ==
    \E tl \in TriangleLists, format \in Formats, layout \in BindGroupLayouts :
        LET made == new(tl, [buffers |-> <<>>], format, layout)
        IN  /\ self = made.gpu
            /\ device = made.device
            /\ rpass = <<>>
            /\ triangle_list = tl
            /\ op = "new"
            /\ updates = 0
            /\ arg_positions = EmptySlice
            /\ arg_bind_group = "none"
            /\ prev_len = Wide(0)

UpdateInstance ==
    /\ updates < MaxUpdates
    /\ \E p \in PositionsArgs :
        LET done == update_instance(self, device, p)
        IN  /\ self' = done.gpu
            /\ device' = done.device
            /\ arg_positions' = p
            /\ prev_len' = SliceLen(arg_positions)
    /\ updates' = updates + 1
    /\ op' = "update_instance"
    /\ UNCHANGED <<rpass, triangle_list, arg_bind_group>>

\* render is handed either the pass already being recorded or a newly begun one
Render ==
    /\ \E pass \in {rpass, <<>>}, bg \in BindGroups :
        /\ Len(pass) < MaxRenders * Len(render(self, bg))
        /\ rpass' = pass \o render(self, bg)
        /\ arg_bind_group' = bg
    /\ op' = "render"
    /\ UNCHANGED <<self, device, triangle_list, updates, arg_positions, prev_len>>

Next == UpdateInstance \/ Render

Spec == Init /\ [][Next]_vars

----------------------------------------------------------------------------
(* Reading the render pass.                                                *)
GroupLen == Len(render(self, "main_bind_group"))

\* the commands the latest render call recorded
LastGroup == SubSeq(rpass, Len(rpass) - GroupLen + 1, Len(rpass))

Group(i) == SubSeq(rpass, (i - 1) * GroupLen + 1, i * GroupLen)

\* the buffer bound at a vertex-buffer slot (0 or 1) by a set_vertex_buffers command
SlotBuffer(c, slot) == c.buffers[slot - c.start_slot + 1][1]

Rendered == op = "render"

ArgLen == SliceLen(arg_positions)

IndexLen == SliceLen(create_cube.index_data)

InstanceStride == self.pipeline.vertex_buffers[2].stride

----------------------------------------------------------------------------
\* C1: for every positions of length 3n, update_instance(positions) followed by
\* render records one draw_indexed with index range 0..index_count and instance
\* range 0..n, and the buffer bound at slot 1 holds exactly positions, in order.
C1_DrawsNInstances ==
    (Rendered /\ updates >= 1 /\ WMod(ArgLen, 3) = 0) =>
        /\ Cardinality({i \in 1..GroupLen : LastGroup[i].cmd = "draw_indexed"}) = 1
        /\ LastGroup[5].cmd = "draw_indexed"
        /\ LastGroup[5].indices = <<Wide(0), IndexLen>>
        /\ LastGroup[5].instances = <<Wide(0), WDiv(ArgLen, 3)>>
        /\ device.buffers[SlotBuffer(LastGroup[4], 1)].data = arg_positions

\* C2: after two or more update_instance calls a following render reflects only
\* the last call: the buffer bound at slot 1 is the one that call allocated, it
\* holds that call's positions and nothing more, and the instance range drawn
\* is the count that call derived from its own argument.
C2_RenderReflectsLastUpdate ==
    (Rendered /\ updates >= 1) =>
        LET b == SlotBuffer(LastGroup[4], 1)
        IN  /\ b = Len(device.buffers)
            /\ device.buffers[b].live
            /\ device.buffers[b].data = arg_positions
            /\ device.buffers[b].size = WMul(SizeOfF32, ArgLen)
            /\ LastGroup[5].instances = <<Wide(0), WDiv(AsU32(ArgLen), 3)>>

\* a longer list, then a shorter non-empty one, then render
C2_Witness ==
    /\ Rendered /\ updates >= 2
    /\ ~WLeq(prev_len, ArgLen)
    /\ ArgLen = Wide(3)
    /\ 1 \in {arg_positions.lead[i] : i \in 1..Len(arg_positions.lead)}

\* C3: index_count is the Mesh Provider's index-list length in every reachable
\* state, and every draw recorded uses the index range 0..index_count.
C3_IndexCountFixed ==
    /\ self.index_count = IndexLen
    /\ self.index_count = SliceLen(device.buffers[self.index_buf].data)
    /\ \A i \in 1..Len(rpass) :
          rpass[i].cmd = "draw_indexed" => rpass[i].indices = <<Wide(0), self.index_count>>

C3_Witness == Rendered /\ updates = 2 /\ ~WLeq(ArgLen, IndexLen)

\* C4: for every length L of positions, update_instance replaces the instance
\* buffer and sets the instance count to exactly L / 3 (integer division).
C4_CountIsLenDiv3 ==
    (op = "update_instance") =>
        /\ device.buffers[self.instance_buf].live
        /\ device.buffers[self.instance_buf].data = arg_positions
        /\ self.instance_count = WDiv(ArgLen, 3)

\* C5: with an empty instance list (after construction, or after
\* update_instance of an empty list) render draws the instance range 0..0; the
\* pipeline, vertex buffer and index buffer stay live and in use, and a later
\* update_instance of 3n > 0 floats followed by render draws n instances with them.
C5_EmptyThenReusable ==
    /\ device.buffers[self.vertex_buf].live
    /\ device.buffers[self.index_buf].live
    /\ (Rendered /\ ArgLen = Wide(0)) => LastGroup[5].instances = <<Wide(0), Wide(0)>>
    /\ (Rendered /\ updates >= 2 /\ prev_len = Wide(0)
            /\ ArgLen # Wide(0) /\ WMod(ArgLen, 3) = 0) =>
          /\ LastGroup[5].instances = <<Wide(0), WDiv(ArgLen, 3)>>
          /\ LastGroup[1].pipeline = self.pipeline
          /\ LastGroup[3].buffer = self.index_buf
          /\ SlotBuffer(LastGroup[4], 0) = self.vertex_buf

\* C6: no step replaces or modifies the vertex buffer, the index buffer or the
\* pipeline; update_instance changes only instance_buf and instance_count, and
\* render changes no field of the renderer.
C6_GeometryAndPipelineImmutable ==
    [][ /\ self'.vertex_buf = self.vertex_buf
        /\ self'.index_buf = self.index_buf
        /\ self'.pipeline = self.pipeline
        /\ device'.buffers[self.vertex_buf] = device.buffers[self.vertex_buf]
        /\ device'.buffers[self.index_buf] = device.buffers[self.index_buf]
        /\ (op' = "update_instance" =>
              self' = [self EXCEPT !.instance_buf = self'.instance_buf,
                                   !.instance_count = self'.instance_count])
        /\ (op' = "render" => self' = self) ]_vars

C6_Witness ==
    /\ Rendered /\ updates = 2
    /\ self.instance_count # Wide(0)
    /\ device.buffers[self.vertex_buf].data = create_cube.vertex_data

\* C7: the renderer owns exactly one live instance buffer in every reachable
\* state: each update_instance allocates one buffer and releases the one held
\* before (after k updates k buffers are released, none leaked), and render
\* never binds a released buffer.
C7_SingleLiveInstanceBuffer ==
    /\ Len(device.buffers) = 3 + updates
    /\ Cardinality({self.vertex_buf, self.index_buf, self.instance_buf}) = 3
    /\ LiveIds(device) = {self.vertex_buf, self.index_buf, self.instance_buf}
    /\ Cardinality((1..Len(device.buffers)) \ LiveIds(device)) = updates
    /\ Rendered => \A slot \in {0, 1} : device.buffers[SlotBuffer(LastGroup[4], slot)].live

C7_Witness == Rendered /\ updates = 2 /\ ArgLen # Wide(0) /\ prev_len # Wide(0)

\* C8: every render call records, in this order and nothing else: set_pipeline,
\* set_bind_group at slot 0 with the given bind group, set_index_buffer,
\* set_vertex_buffers with the vertex buffer at slot 0 and the held instance
\* buffer at slot 1, and one draw_indexed, which comes last.
C8_RenderCommandOrder ==
    /\ Len(rpass) % 5 = 0
    /\ \A g \in 1..(Len(rpass) \div 5) :
          LET c == Group(g)
          IN  /\ c[1].cmd = "set_pipeline" /\ c[1].pipeline = self.pipeline
              /\ c[2].cmd = "set_bind_group" /\ c[2].index = 0
              /\ c[2].bind_group \in BindGroups
              /\ c[3].cmd = "set_index_buffer" /\ c[3].buffer = self.index_buf
              /\ c[4].cmd = "set_vertex_buffers" /\ c[4].start_slot = 0
              /\ Len(c[4].buffers) = 2
              /\ SlotBuffer(c[4], 0) = self.vertex_buf
              /\ c[5].cmd = "draw_indexed"
    /\ Rendered =>
          /\ Len(rpass) >= 5
          /\ LastGroup[2].bind_group = arg_bind_group
          /\ SlotBuffer(LastGroup[4], 1) = self.instance_buf
          /\ LastGroup[5].instances = <<Wide(0), self.instance_count>>

C8_Witness ==
    /\ Rendered /\ updates = 2 /\ arg_bind_group = "other_bind_group"
    /\ self.instance_count = Wide(1)

\* C9: 3 * instance_count never exceeds the number of floats in the held
\* instance buffer, so instances 0..instance_count at the 12-byte stride lie
\* within the buffer.
C9_InstancesWithinBuffer ==
    /\ InstanceStride = 12
    /\ WLeq(WMul(3, self.instance_count), SliceLen(device.buffers[self.instance_buf].data))
    /\ WLeq(WMul(InstanceStride, self.instance_count), device.buffers[self.instance_buf].size)
    /\ Rendered =>
          WLeq(WMul(InstanceStride, LastGroup[5].instances[2]),
               device.buffers[SlotBuffer(LastGroup[4], 1)].size)

C9_Witness ==
    /\ Rendered /\ WMod(ArgLen, 3) # 0
    /\ ~WLeq(ArgLen, U32Max)
    /\ self.instance_count # Wide(0)

\* C10: the geometry of the constructed renderer does not depend on the
\* triangle_list argument of new: whatever list is passed, index_count and the
\* vertex and index buffer contents are those of the Mesh Provider's cube.
Geometry(gpu, dev) ==
    [index_count |-> gpu.index_count,
     vertices    |-> dev.buffers[gpu.vertex_buf].data,
     indices     |-> dev.buffers[gpu.index_buf].data]

C10_GeometryIgnoresArgument ==
    /\ Geometry(self, device) =
          [index_count |-> IndexLen, vertices |-> create_cube.vertex_data,
           indices |-> create_cube.index_data]
    /\ \A tl \in TriangleLists, f \in Formats, l \in BindGroupLayouts :
          LET other == new(tl, [buffers |-> <<>>], f, l)
          IN  Geometry(other.gpu, other.device) = Geometry(self, device)

C10_Witness == triangle_list = OneTriangle /\ Rendered /\ updates >= 1

====
